---- MODULE Spec2Model ----
(***************************************************************************)
(* Attendance tracking (src/app.py): the attendance table and the two      *)
(* request handlers that write it, teacher_dashboard (POST) and            *)
(* staff_update_remark, run by concurrent requests, each on its own        *)
(* sqlite3 connection; the period resolver; the staff dashboard's          *)
(* aggregation.                                                            *)
(***************************************************************************)
EXTENDS Integers, Sequences, FiniteSets, TLC

\* ------------------------------------------------------------------ bounds
\* Number of requests that sample a timestamp (get_current_datetime) in a run.
MaxClock == 3

\* ------------------------------------------------------- the modelled world
\* Concurrent requests; each has its own connection (flask g) and login session.
Procs == {1, 2}

\* The roster of the session's class: SELECT * FROM student WHERE class_id = ? ORDER BY name
students == <<1, 2>>

\* session['class_id'] of the teachers' sessions
class_id == "c1"

\* get_current_date().isoformat()
today == "d1"

\* period numbers a form can carry
Periods == {1, 2}

\* SQL NULL / Python None in a text column
NULL == "NULL"

\* the values the form's radio buttons send for status_<id>
FormValues == {"present", "absent"}

\* values the remark form field can carry ("MISSING": the field is not sent)
RemarkInputs == {"excused", "still absent", "", "bogus", "MISSING"}

VARIABLES
    db,        \* committed rows of the attendance table
    wdb,       \* the uncommitted table of the connection holding the write lock
    lock,      \* the processes whose transaction holds sqlite's write lock (none or one)
    pc,        \* pc[p]: where request p stands in its handler
    loc,       \* loc[p]: the handler's local variables
    clock,     \* number of timestamps handed out so far
    result,    \* result[p]: the flash message / outcome of p's last finished request
    lastDone,  \* the request that finished last, with its form when it was a
               \* submission (kept in the sequential runs only)
    summary,   \* what staff_dashboard last computed for a class
    schedule,  \* rows of the period table
    weekday,   \* get_current_date().weekday()
    now,       \* get_current_datetime().time(), in ticks since midnight
    resolved,  \* what the period resolver last returned
    school_class,  \* rows of the school_class table
    xlsx       \* exports/attendance-<today>.xlsx: NoFile or the saved workbook

\* the variables the attendance handlers neither read nor write
viewVars == <<summary, schedule, weekday, now, resolved>>
viewVarsButSchedule == <<summary, weekday, now, resolved>>

\* the class table and the day's workbook
fileVars == <<school_class, xlsx>>

vars == <<db, wdb, lock, pc, loc, clock, result, lastDone, viewVars, fileVars>>

NoLock == {}

\* nothing computed yet
NoSummary == [class_id |-> NULL]
NoResolved == [by |-> "none"]

\* os.path.exists(fname) is false
NoFile == [exists |-> FALSE]

\* the two classes of the school, by id, with their names
TwoClasses == {[id |-> class_id, name |-> <<"1", "A">>], [id |-> "c2", name |-> <<"1", "B">>]}

\* ---------------------------------------------------------------- the table
\* One row of CREATE TABLE attendance (notes is not modelled).
Row(id, sid, per, status, cid, tid, remark, cat, uat) ==
    [id |-> id, student_id |-> sid, date |-> today, period |-> per, status |-> status,
     class_id |-> cid, teacher_id |-> tid, remark |-> remark,
     created_at |-> cat, updated_at |-> uat]

RECURSIVE SetMax(_)
SetMax(S) == IF S = {} THEN 0
             ELSE LET x == CHOOSE y \in S : TRUE
                      m == SetMax(S \ {x})
                  IN IF x > m THEN x ELSE m

\* id INTEGER PRIMARY KEY AUTOINCREMENT
NextId(d) == SetMax({r.id : r \in d}) + 1

\* rows WHERE student_id = ? AND date = ? AND period = ?
Lookup(d, sid, dt, per) ==
    {r \in d : r.student_id = sid /\ r.date = dt /\ r.period = per}

NoRow == [found |-> FALSE, id |-> 0, status |-> NULL]

\* SELECT id, status ... .fetchone(): the first matching row, or None
fetchone(rows) ==
    IF rows = {} THEN NoRow
    ELSE LET r == CHOOSE x \in rows : \A y \in rows : x.id <= y.id
         IN [found |-> TRUE, id |-> r.id, status |-> r.status]

\* mutant: the table is created without its UNIQUE constraint
UniqueViolation_NoConstraint(d, sid, dt, per) == FALSE

\* UNIQUE(student_id, date, period): does inserting this triple raise IntegrityError?
UniqueViolation(d, sid, dt, per) == Lookup(d, sid, dt, per) # {}

\* mutant: the update of the absent-to-present branch leaves the remark column out
UpdateClearRemark_KeepsRemark(d, id, status, cid, tid, t) ==
    {IF r.id = id
       THEN [r EXCEPT !.status = status, !.class_id = cid, !.teacher_id = tid,
                      !.updated_at = t]
       ELSE r : r \in d}

\* UPDATE attendance SET status, class_id, teacher_id, remark = NULL, updated_at WHERE id = ?
UpdateClearRemark(d, id, status, cid, tid, t) ==
    {IF r.id = id
       THEN [r EXCEPT !.status = status, !.class_id = cid, !.teacher_id = tid,
                      !.remark = NULL, !.updated_at = t]
       ELSE r : r \in d}

\* mutant: every update by id clears the remark
UpdateKeepRemark_ClearsRemark(d, id, status, cid, tid, t) ==
    {IF r.id = id
       THEN [r EXCEPT !.status = status, !.class_id = cid, !.teacher_id = tid,
                      !.remark = NULL, !.updated_at = t]
       ELSE r : r \in d}

\* UPDATE attendance SET status, class_id, teacher_id, updated_at WHERE id = ?
UpdateKeepRemark(d, id, status, cid, tid, t) ==
    {IF r.id = id
       THEN [r EXCEPT !.status = status, !.class_id = cid, !.teacher_id = tid,
                      !.updated_at = t]
       ELSE r : r \in d}

\* UPDATE attendance SET status, class_id, teacher_id, updated_at
\*   WHERE student_id = ? AND date = ? AND period = ?   (the IntegrityError fallback)
UpdateByKey(d, sid, dt, per, status, cid, tid, t) ==
    {IF r.student_id = sid /\ r.date = dt /\ r.period = per
       THEN [r EXCEPT !.status = status, !.class_id = cid, !.teacher_id = tid,
                      !.updated_at = t]
       ELSE r : r \in d}

\* mutant: the IntegrityError of a rejected insert is swallowed without the update
InsertOrUpdate_NoFallback(d, sid, dt, per, status, cid, tid, t) ==
    IF UniqueViolation(d, sid, dt, per)
      THEN d
      ELSE d \cup {Row(NextId(d), sid, per, status, cid, tid, NULL, t, t)}

\* INSERT INTO attendance (...) VALUES (...), falling back to the update by key
\* when the unique constraint rejects the insert
InsertOrUpdate(d, sid, dt, per, status, cid, tid, t) ==
    IF UniqueViolation(d, sid, dt, per)
      THEN UpdateByKey(d, sid, dt, per, status, cid, tid, t)
      ELSE d \cup {Row(NextId(d), sid, per, status, cid, tid, NULL, t, t)}

\* mutant: every submission appends a row, whatever was read before
WriteStudent_InsertOnly(d, existing, sid, dt, per, status, cid, tid, t) ==
    d \cup {Row(NextId(d), sid, per, status, cid, tid, NULL, t, t)}

\* The body of the per-student loop after the SELECT: what the handler writes for
\* student sid, given the row `existing` it read.
WriteStudent(d, existing, sid, dt, per, status, cid, tid, t) ==
    IF existing.found
      THEN IF existing.status = "absent" /\ status = "present"
             THEN UpdateClearRemark(d, existing.id, status, cid, tid, t)
             ELSE UpdateKeepRemark(d, existing.id, status, cid, tid, t)
      ELSE InsertOrUpdate(d, sid, dt, per, status, cid, tid, t)

\* mutant: the status check is left out
RemarkAllowed_NoCheck(att_record) == TRUE

\* if att_record['status'] != 'absent': the request is refused
RemarkAllowed(att_record) == att_record.status = "absent"

\* mutant: the update has no WHERE clause
UpdateRemark_NoWhere(d, id, remark, t) ==
    {[r EXCEPT !.remark = remark, !.updated_at = t] : r \in d}

\* UPDATE attendance SET remark = ?, updated_at = ? WHERE id = ?
UpdateRemark(d, id, remark, t) ==
    {IF r.id = id THEN [r EXCEPT !.remark = remark, !.updated_at = t] ELSE r : r \in d}

\* ------------------------------------------------------------ the requests
\* mutant: a student the form has no status for is taken as absent
FormGet_DefaultAbsent(form, sid) == IF sid \in DOMAIN form THEN form[sid] ELSE "absent"

\* request.form.get(f'status_{student.id}', 'present')
FormGet(form, sid) == IF sid \in DOMAIN form THEN form[sid] ELSE "present"

\* int(request.form.get('period') or 1); the field is <<>> when it is not sent
FormPeriod(field) == IF field = <<>> THEN 1 ELSE field[1]

\* the forms a teacher can post: a status for every student of the roster; a form
\* that leaves the status of all but the first student out; a hand-made form whose
\* only status field carries a value the page does not offer
RosterSet == {students[i] : i \in DOMAIN students}
Forms == [RosterSet -> FormValues]
           \cup {[s \in {students[1]} |-> "absent"], [s \in {students[1]} |-> "late"]}
PeriodFields == {<<>>} \cup {<<n>> : n \in Periods}

\* the period fields of the concurrent runs: every submission is for the first
\* period, named or left out (submissions for different periods write disjoint rows)
SamePeriodFields == {<<>>, <<1>>}

IdleLoc == [kind |-> "none", period |-> 0, form |-> <<>>, teacher_id |-> 0,
            i |-> 0, existing |-> NoRow, current_time |-> 0,
            student_id |-> 0, remark |-> NULL,
            wb |-> <<>>, classes_rows |-> <<>>, classes_all |-> <<>>]

\* what a connection reads: its own uncommitted table once it holds the write
\* lock, the committed table otherwise
View(p) == IF lock = {p} THEN wdb ELSE db

\* teacher_dashboard, POST, up to the loop: the session's teacher and class,
\* the roster, the period of the form and the timestamp of the request.
teacher_dashboard_post(p, field, form, track) ==
    /\ pc[p] = "idle"
    /\ clock < MaxClock
    /\ clock' = clock + 1
    /\ loc' = [loc EXCEPT ![p] = [IdleLoc EXCEPT !.kind = "submit",
                                     !.period = FormPeriod(field), !.form = form,
                                     !.teacher_id = p, !.i = 1,
                                     !.current_time = clock + 1]]
    /\ pc' = [pc EXCEPT ![p] = IF Len(students) = 0 THEN "commit" ELSE "select"]
    /\ result' = [result EXCEPT ![p] = "pending"]
    /\ UNCHANGED <<db, wdb, lock, lastDone>>
    /\ UNCHANGED <<viewVars, fileVars>>

\* existing = SELECT id, status FROM attendance WHERE student_id, date, period
teacher_dashboard_select(p) ==
    /\ pc[p] = "select"
    /\ loc' = [loc EXCEPT ![p].existing =
                  fetchone(Lookup(View(p), students[loc[p].i], today, loc[p].period))]
    /\ pc' = [pc EXCEPT ![p] = "write"]
    /\ UNCHANGED <<db, wdb, lock, clock, result, lastDone>>
    /\ UNCHANGED <<viewVars, fileVars>>

\* the UPDATE or INSERT for the current student; the first write of the request
\* opens the transaction and takes the write lock, and waits while another
\* connection holds it
teacher_dashboard_write(p) ==
    /\ pc[p] = "write"
    /\ lock \subseteq {p}
    /\ LET l == loc[p]
           sid == students[l.i]
       IN /\ wdb' = WriteStudent(View(p), l.existing, sid, today, l.period,
                                 FormGet(l.form, sid), class_id, l.teacher_id,
                                 l.current_time)
          /\ loc' = [loc EXCEPT ![p].i = l.i + 1]
          /\ pc' = [pc EXCEPT ![p] = IF l.i = Len(students) THEN "commit" ELSE "select"]
    /\ lock' = {p}
    /\ UNCHANGED <<db, clock, result, lastDone>>
    /\ UNCHANGED <<viewVars, fileVars>>

\* db_conn.commit(); update_daily_excel(today) follows when the run includes the
\* workbook (report), and is left out when it is about the table alone
teacher_dashboard_commit(p, report) ==
    /\ pc[p] = "commit"
    /\ db' = View(p)
    /\ wdb' = {}
    /\ lock' = lock \ {p}
    /\ pc' = [pc EXCEPT ![p] = IF report THEN "excel_load" ELSE "saved"]
    /\ UNCHANGED <<loc, clock, result, lastDone>>
    /\ UNCHANGED <<viewVars, fileVars>>

\* flash('Attendance saved') and the redirect that ends the request
teacher_dashboard_saved(p, track) ==
    /\ pc[p] = "saved"
    /\ result' = [result EXCEPT ![p] = "saved"]
    /\ lastDone' = IF track THEN [kind |-> "submit", teacher_id |-> loc[p].teacher_id,
                                period |-> loc[p].period, form |-> loc[p].form]
                   ELSE lastDone
    /\ loc' = [loc EXCEPT ![p] = IdleLoc]
    /\ pc' = [pc EXCEPT ![p] = "idle"]
    /\ UNCHANGED <<db, wdb, lock, clock>>
    /\ UNCHANGED <<viewVars, fileVars>>

\* staff_update_remark up to the status check: the form is validated, the
\* timestamp taken, the record read; the request ends here when the form is
\* invalid, the record is missing or the student is not absent.
staff_update_remark_check(p, student_id, period, remark, track) ==
    /\ pc[p] = "idle"
    /\ LET att_record == fetchone(Lookup(View(p), student_id, today, period))
           inp == [kind |-> "remark"]
           ends(msg) ==
               /\ result' = [result EXCEPT ![p] = msg]
               /\ lastDone' = IF track THEN inp ELSE lastDone
               /\ UNCHANGED <<pc, loc>>
       IN IF remark \notin {"excused", "still absent", ""}
            THEN ends("Invalid remark value") /\ UNCHANGED clock
          ELSE /\ clock < MaxClock
               /\ clock' = clock + 1
               /\ IF ~att_record.found
                    THEN ends("Attendance record not found")
                  ELSE IF ~RemarkAllowed(att_record)
                    THEN ends("Remarks can only be added for absent students")
                  ELSE /\ loc' = [loc EXCEPT ![p] =
                                     [IdleLoc EXCEPT !.kind = "remark", !.period = period,
                                         !.student_id = student_id, !.remark = remark,
                                         !.existing = att_record,
                                         !.current_time = clock + 1]]
                       /\ pc' = [pc EXCEPT ![p] = "remark_update"]
                       /\ result' = [result EXCEPT ![p] = "pending"]
                       /\ UNCHANGED lastDone
    /\ UNCHANGED <<db, wdb, lock>>
    /\ UNCHANGED <<viewVars, fileVars>>

\* conn.execute("UPDATE attendance SET remark = ?, updated_at = ? WHERE id = ?"):
\* opens the transaction and takes the write lock
staff_update_remark_update(p) ==
    /\ pc[p] = "remark_update"
    /\ lock \subseteq {p}
    /\ LET l == loc[p]
       IN wdb' = UpdateRemark(View(p), l.existing.id,
                              IF l.remark = "" THEN NULL ELSE l.remark, l.current_time)
    /\ lock' = {p}
    /\ pc' = [pc EXCEPT ![p] = "remark_commit"]
    /\ UNCHANGED <<db, loc, clock, result, lastDone>>
    /\ UNCHANGED <<viewVars, fileVars>>

\* conn.commit(); update_daily_excel(date) follows when the run includes the
\* workbook (report)
staff_update_remark_commit(p, report) ==
    /\ pc[p] = "remark_commit"
    /\ db' = View(p)
    /\ wdb' = {}
    /\ lock' = lock \ {p}
    /\ pc' = [pc EXCEPT ![p] = IF report THEN "excel_load" ELSE "remark_done"]
    /\ UNCHANGED <<loc, clock, result, lastDone>>
    /\ UNCHANGED <<viewVars, fileVars>>

\* the flash message for the stored remark and the redirect that ends the request
staff_update_remark_done(p, track) ==
    /\ pc[p] = "remark_done"
    /\ result' = [result EXCEPT ![p] =
                     IF loc[p].remark = "excused" THEN "Student marked as excused"
                     ELSE IF loc[p].remark = "still absent" THEN "Student marked as still absent"
                     ELSE "Remark cleared"]
    /\ lastDone' = IF track THEN [kind |-> "remark"] ELSE lastDone
    /\ loc' = [loc EXCEPT ![p] = IdleLoc]
    /\ pc' = [pc EXCEPT ![p] = "idle"]
    /\ UNCHANGED <<db, wdb, lock, clock>>
    /\ UNCHANGED <<viewVars, fileVars>>

\* A first write that finds the write lock held by another connection waits for
\* it; when the wait outlasts the connection's timeout (sqlite3.connect, 5 s by
\* default) the statement raises OperationalError and the request fails. The
\* connection has written nothing yet.
database_is_locked(p) ==
    /\ pc[p] \in {"write", "remark_update"}
    /\ lock # {} /\ lock # {p}
    /\ result' = [result EXCEPT ![p] = "OperationalError"]
    /\ loc' = [loc EXCEPT ![p] = IdleLoc]
    /\ pc' = [pc EXCEPT ![p] = "idle"]
    /\ UNCHANGED <<db, wdb, lock, clock, lastDone>>
    /\ UNCHANGED <<viewVars, fileVars>>

Init ==
    /\ db = {}
    /\ wdb = {}
    /\ lock = NoLock
    /\ pc = [p \in Procs |-> "idle"]
    /\ loc = [p \in Procs |-> IdleLoc]
    /\ clock = 0
    /\ result = [p \in Procs |-> "none"]
    /\ lastDone = [kind |-> "none"]
    /\ summary = NoSummary
    /\ schedule = {}
    /\ weekday = "Mon"
    /\ now = 0
    /\ resolved = NoResolved
    /\ school_class = TwoClasses
    /\ xlsx = NoFile

Next ==
    \E p \in Procs :
        \/ \E field \in SamePeriodFields, form \in Forms :
               teacher_dashboard_post(p, field, form, FALSE)
        \/ teacher_dashboard_select(p)
        \/ teacher_dashboard_write(p)
        \/ teacher_dashboard_commit(p, FALSE)
        \/ teacher_dashboard_saved(p, FALSE)
        \/ \E sid \in RosterSet, per \in Periods, remark \in RemarkInputs :
               staff_update_remark_check(p, sid, per, remark, FALSE)
        \/ staff_update_remark_update(p)
        \/ staff_update_remark_commit(p, FALSE)
        \/ staff_update_remark_done(p, FALSE)
        \/ database_is_locked(p)

Spec == Init /\ [][Next]_vars

\* One client, one request at a time, starting from a table that holds nothing or
\* one record of the first student; the form of the submission that ended last is kept.
SeqProcs == {1}

SeedStores ==
    {{}} \cup {{Row(1, students[1], 1, st, class_id, 1, rm, 0, 0)} :
                  st \in {"present", "absent", "late"},
                  rm \in {NULL, "excused", "still absent"}}

InitSeq ==
    /\ db \in SeedStores
    /\ wdb = {}
    /\ lock = NoLock
    /\ pc = [p \in Procs |-> "idle"]
    /\ loc = [p \in Procs |-> IdleLoc]
    /\ clock = 0
    /\ result = [p \in Procs |-> "none"]
    /\ lastDone = [kind |-> "none"]
    /\ summary = NoSummary
    /\ schedule = {}
    /\ weekday = "Mon"
    /\ now = 0
    /\ resolved = NoResolved
    /\ school_class = TwoClasses
    /\ xlsx = NoFile

NextSeq ==
    \E p \in SeqProcs :
        \/ \E field \in PeriodFields, form \in Forms :
               teacher_dashboard_post(p, field, form, TRUE)
        \/ teacher_dashboard_select(p)
        \/ teacher_dashboard_write(p)
        \/ teacher_dashboard_commit(p, FALSE)
        \/ teacher_dashboard_saved(p, TRUE)
        \/ \E sid \in RosterSet, per \in Periods, remark \in RemarkInputs :
               staff_update_remark_check(p, sid, per, remark, TRUE)
        \/ staff_update_remark_update(p)
        \/ staff_update_remark_commit(p, FALSE)
        \/ staff_update_remark_done(p, TRUE)

SpecSeq == InitSeq /\ [][NextSeq]_vars

\* ------------------------------------------------------------ shared queries
\* the rows of school_class; the students of the roster belong to class_id, and
\* may have been recorded earlier in the day while they belonged to the other
Classes == {class_id, "c2"}

\* SQL comparisons: a comparison with NULL is not true
SqlEq(a, b) == a # NULL /\ a = b
SqlNe(a, b) == a # NULL /\ a # b

\* ... ORDER BY period: the rows as a sequence, lowest period first
RECURSIVE OrderByPeriod(_)
OrderByPeriod(rows) ==
    IF rows = {} THEN <<>>
    ELSE LET r == CHOOSE x \in rows : \A y \in rows : x.period <= y.period
         IN <<r>> \o OrderByPeriod(rows \ {r})

\* ------------------------------------------------- the current period
\* The time of day is counted in half minutes, so that `now`, which carries
\* seconds, can fall between two values a schedule can name; the schedule names
\* the minutes 1..MaxMinute.
MaxMinute == 2
Ticks == 0 .. (2 * MaxMinute + 1)

\* the text of a start_time / end_time column: NULL, a text '%H:%M' does not
\* parse, or "HH:MM"
TimeNull == [kind |-> NULL, minute |-> 0]
TimeUnparsable == [kind |-> "text", minute |-> 0]
HHMM(m) == [kind |-> "HH:MM", minute |-> m]
TimeTexts == {TimeNull, TimeUnparsable} \cup {HHMM(m) : m \in 1 .. MaxMinute}

NoTime == [ok |-> FALSE, t |-> 0]

\* parse_t: datetime.strptime(tstr, '%H:%M').time(), None on any exception
parse_t(tstr) ==
    IF tstr.kind = "HH:MM" THEN [ok |-> TRUE, t |-> 2 * tstr.minute] ELSE NoTime

\* a row of the period table
PeriodRow(day, per, st, en, c) ==
    [day_of_week |-> day, period |-> per, start_time |-> st, end_time |-> en,
     class_id |-> c]

\* mutant: the rows of the day are read whatever their class
period_rows_AllClasses(sched, day, c) ==
    OrderByPeriod({r \in sched : r.day_of_week = day})

\* mutant: the rows are read highest period first
period_rows_Descending(sched, day, c) ==
    LET rev(rows) == [i \in DOMAIN rows |-> rows[Len(rows) + 1 - i]]
    IN IF c = NULL
         THEN rev(OrderByPeriod({r \in sched : r.day_of_week = day /\ r.class_id = NULL}))
         ELSE rev(OrderByPeriod({r \in sched : r.day_of_week = day
                                                /\ (r.class_id = NULL \/ SqlEq(r.class_id, c))}))

\* SELECT * FROM period WHERE day_of_week = ? AND class_id IS NULL ORDER BY period
\* SELECT * FROM period WHERE day_of_week = ?
\*   AND (class_id IS NULL OR class_id = ?) ORDER BY period
period_rows(sched, day, c) ==
    IF c = NULL
      THEN OrderByPeriod({r \in sched : r.day_of_week = day /\ r.class_id = NULL})
      ELSE OrderByPeriod({r \in sched : r.day_of_week = day
                                         /\ (r.class_id = NULL \/ SqlEq(r.class_id, c))})

NoPeriod == [found |-> FALSE, period |-> 0]

\* mutant: a row without a usable end time runs to the end of the day
row_is_current_OpenEnded(r, t) ==
    LET st == IF r.start_time # TimeNull THEN parse_t(r.start_time) ELSE NoTime
        en == IF r.end_time # TimeNull THEN parse_t(r.end_time) ELSE NoTime
    IN st.ok /\ st.t <= t /\ (en.ok => t <= en.t)

\* mutant: the end of the range is excluded
row_is_current_ExclusiveEnd(r, t) ==
    LET st == IF r.start_time # TimeNull THEN parse_t(r.start_time) ELSE NoTime
        en == IF r.end_time # TimeNull THEN parse_t(r.end_time) ELSE NoTime
    IN st.ok /\ en.ok /\ st.t <= t /\ t < en.t

\* get_current_period_for_class: st, en and `if st and en and st <= now <= en`
row_is_current(r, t) ==
    LET st == IF r.start_time # TimeNull THEN parse_t(r.start_time) ELSE NoTime
        en == IF r.end_time # TimeNull THEN parse_t(r.end_time) ELSE NoTime
    IN st.ok /\ en.ok /\ st.t <= t /\ t <= en.t

RECURSIVE first_current_row(_, _)
first_current_row(rows, t) ==
    IF rows = <<>> THEN NoPeriod
    ELSE IF row_is_current(Head(rows), t)
      THEN [found |-> TRUE, period |-> Head(rows).period]
      ELSE first_current_row(Tail(rows), t)

\* mutant: without a match the first period of the day is returned
scan_rows_FirstPeriodFallback(rows, t) ==
    IF first_current_row(rows, t).found THEN first_current_row(rows, t)
    ELSE IF rows # <<>> THEN [found |-> TRUE, period |-> Head(rows).period]
    ELSE NoPeriod

\* get_current_period_for_class: `for r in rows: ... return r['period'], r`,
\* then `return None, None`
scan_rows(rows, t) == first_current_row(rows, t)

\* get_current_period_for_class(class_id), class_id NULL for the whole school
get_current_period_for_class(c) ==
    /\ resolved' = [by |-> "get_current_period_for_class", class_id |-> c,
                    current_period |-> scan_rows(period_rows(schedule, weekday, c), now)]
    /\ UNCHANGED <<db, wdb, lock, pc, loc, clock, result, lastDone,
                   summary, schedule, weekday, now>>
    /\ UNCHANGED fileVars

\* teacher_dashboard: st, en and `if st and en and st <= now <= en`
p_is_current(p, t) ==
    LET st == IF p.start_time # TimeNull THEN parse_t(p.start_time) ELSE NoTime
        en == IF p.end_time # TimeNull THEN parse_t(p.end_time) ELSE NoTime
    IN st.ok /\ en.ok /\ st.t <= t /\ t <= en.t

\* teacher_dashboard: current_period = None; for p in periods_today: ... break
RECURSIVE scan_periods_today(_, _)
scan_periods_today(periods_today, t) ==
    IF periods_today = <<>> THEN NoPeriod
    ELSE IF p_is_current(Head(periods_today), t)
      THEN [found |-> TRUE, period |-> Head(periods_today).period]
      ELSE scan_periods_today(Tail(periods_today), t)

\* teacher_dashboard, the page of the teacher of class c: current_period
teacher_dashboard_get(c) ==
    /\ resolved' = [by |-> "teacher_dashboard", class_id |-> c,
                    current_period |->
                        scan_periods_today(period_rows(schedule, weekday, c), now)]
    /\ UNCHANGED <<db, wdb, lock, pc, loc, clock, result, lastDone,
                   summary, schedule, weekday, now>>
    /\ UNCHANGED fileVars

\* the period tables admin_periods_create and admin_periods_edit can leave: up
\* to two rows, no two of them with the same day, number and class
Days == {"Mon", "Tue"}
Scopes == {NULL} \cup Classes
PeriodRows ==
    {PeriodRow(day, per, st, en, c) :
        day \in Days, per \in Periods, st \in TimeTexts, en \in TimeTexts, c \in Scopes}
SamePeriodKey(r1, r2) ==
    /\ r1.day_of_week = r2.day_of_week
    /\ r1.period = r2.period
    /\ r1.class_id = r2.class_id
Schedules(rows) ==
    {{}} \cup UNION {{{r1, r2} : r2 \in {r \in rows : r = r1 \/ ~SamePeriodKey(r, r1)}} :
                        r1 \in rows}

InitResolver ==
    /\ db = {}
    /\ wdb = {}
    /\ lock = NoLock
    /\ pc = [p \in Procs |-> "idle"]
    /\ loc = [p \in Procs |-> IdleLoc]
    /\ clock = 0
    /\ result = [p \in Procs |-> "none"]
    /\ lastDone = [kind |-> "none"]
    /\ summary = NoSummary
    /\ schedule \in Schedules(PeriodRows)
    /\ weekday = "Mon"
    /\ now \in Ticks
    /\ resolved = NoResolved
    /\ school_class = TwoClasses
    /\ xlsx = NoFile

\* resolutions for the whole school and for the class of the roster; the
\* schedule also holds entries of the other class
NextResolver ==
    \/ \E c \in {NULL, class_id} : get_current_period_for_class(c)
    \/ teacher_dashboard_get(class_id)

SpecResolver == InitResolver /\ [][NextResolver]_vars

\* ---------------------------------------------------------- staff_dashboard
\* SELECT * FROM student WHERE class_id = ? ORDER BY name
students_rows(c) == IF c = class_id THEN students ELSE <<>>

\* SELECT period, status, remark, notes FROM attendance
\*   WHERE student_id = ? AND date = ? AND class_id = ? ORDER BY period
attendance_rows(d, sid, dt, c) ==
    OrderByPeriod({r \in d : r.student_id = sid /\ r.date = dt /\ r.class_id = c})

NoFlags == [student_has_any_record |-> FALSE, student_is_absent_today |-> FALSE,
            student_is_excused |-> FALSE]

\* mutant: the scan does not look at the remark of an absence
scan_row_NoExcusal(flags, att_row) ==
    IF att_row.status = "absent"
      THEN [flags EXCEPT !.student_has_any_record = TRUE, !.student_is_absent_today = TRUE]
      ELSE [flags EXCEPT !.student_has_any_record = TRUE]

\* the body of `for att_row in attendance_rows`
scan_row(flags, att_row) ==
    IF att_row.status = "absent"
      THEN IF att_row.remark = "excused"
             THEN [flags EXCEPT !.student_has_any_record = TRUE, !.student_is_excused = TRUE]
             ELSE [flags EXCEPT !.student_has_any_record = TRUE,
                                !.student_is_absent_today = TRUE]
      ELSE [flags EXCEPT !.student_has_any_record = TRUE]

RECURSIVE scan(_, _)
scan(flags, rows) ==
    IF rows = <<>> THEN flags ELSE scan(scan_row(flags, Head(rows)), Tail(rows))

\* the if/elif/else that follows the scan
overall_status(flags) ==
    IF ~flags.student_has_any_record THEN "not_recorded"
    ELSE IF flags.student_is_absent_today THEN "absent"
    ELSE IF flags.student_has_any_record THEN "present" ELSE "not_recorded"

\* mutant: the columns are the periods of the timetable, recorded or not
distinct_periods_AllPeriods(d, dt, c) == Periods

\* SELECT DISTINCT period FROM attendance WHERE date = ? AND class_id = ?
distinct_periods(d, dt, c) == {r.period : r \in {x \in d : x.date = dt /\ x.class_id = c}}

\* SELECT COUNT(1) ... WHERE date = ? AND class_id = ? AND period = ? AND status = 'present'
present_cnt(d, dt, c, p) ==
    Cardinality({r \in d : r.date = dt /\ r.class_id = c /\ r.period = p
                           /\ SqlEq(r.status, "present")})

\* mutant: the query compares the remark without allowing for NULL
absent_cnt_NoNull(d, dt, c, p) ==
    Cardinality({r \in d : r.date = dt /\ r.class_id = c /\ r.period = p
                           /\ SqlEq(r.status, "absent") /\ SqlNe(r.remark, "excused")})

\* SELECT COUNT(1) ... AND status = 'absent' AND (remark IS NULL OR remark != 'excused')
absent_cnt(d, dt, c, p) ==
    Cardinality({r \in d : r.date = dt /\ r.class_id = c /\ r.period = p
                           /\ SqlEq(r.status, "absent")
                           /\ (r.remark = NULL \/ SqlNe(r.remark, "excused"))})

\* mutant: the excused absences are not counted at all
excused_cnt_NotCounted(d, dt, c, p) == 0

\* SELECT COUNT(1) ... AND status = 'absent' AND remark = 'excused'
excused_cnt(d, dt, c, p) ==
    Cardinality({r \in d : r.date = dt /\ r.class_id = c /\ r.period = p
                           /\ SqlEq(r.status, "absent") /\ SqlEq(r.remark, "excused")})

\* period_counts[p] = {'present': present_cnt + excused_cnt, 'absent': absent_cnt}
period_counts(d, dt, c) ==
    [p \in distinct_periods(d, dt, c) |->
        [present |-> present_cnt(d, dt, c, p) + excused_cnt(d, dt, c, p),
         absent |-> absent_cnt(d, dt, c, p)]]

\* update_daily_excel, the totals row of a period: the three COUNT(1) queries,
\* present_cnt += excused_cnt, "P:{present_cnt} A:{absent_cnt}"
excel_totals(d, dt, c, p) ==
    LET absent_row == {r \in d : r.date = dt /\ r.class_id = c /\ r.period = p
                                  /\ SqlEq(r.status, "absent")
                                  /\ (r.remark = NULL \/ SqlNe(r.remark, "excused"))}
        excused_row == {r \in d : r.date = dt /\ r.class_id = c /\ r.period = p
                                   /\ SqlEq(r.status, "absent") /\ SqlEq(r.remark, "excused")}
        present_row == {r \in d : r.date = dt /\ r.class_id = c /\ r.period = p
                                   /\ SqlEq(r.status, "present")}
    IN [present |-> Cardinality(present_row) + Cardinality(excused_row),
        absent |-> Cardinality(absent_row)]

\* staff_dashboard: one entry of `summary`, for class c
class_summary(d, dt, c) ==
    LET roster == students_rows(c)
        status_of == [i \in DOMAIN roster |->
                        overall_status(scan(NoFlags, attendance_rows(d, roster[i], dt, c)))]
        count(st) == Cardinality({i \in DOMAIN roster : status_of[i] = st})
    IN [class_id |-> c,
        total |-> Len(roster),
        present |-> count("present"),
        absent |-> count("absent"),
        not_recorded |-> count("not_recorded"),
        current_period |-> scan_rows(period_rows(schedule, weekday, c), now),
        students |-> [i \in DOMAIN roster |->
                        [student |-> roster[i], overall_status |-> status_of[i]]],
        period_counts |-> period_counts(d, dt, c)]

\* staff_dashboard, for one class of the page
staff_dashboard(c) ==
    /\ summary' = class_summary(db, today, c)
    /\ UNCHANGED <<db, wdb, lock, pc, loc, clock, result, lastDone,
                   schedule, weekday, now, resolved>>
    /\ UNCHANGED fileVars

\* the tables the dashboard is computed from: for every student of the roster and
\* every period no record or one record, of any status and remark, recorded for
\* either class
AggSlots == {<<students[i], p>> : i \in DOMAIN students, p \in Periods}
AggRowChoices ==
    {[status |-> st, remark |-> rm, class_id |-> c] :
        st \in {"present", "absent", "late"},
        rm \in {NULL, "excused", "still absent"},
        c \in Classes}
AggStores(slots) ==
    {{Row(2 * sl[1] + sl[2], sl[1], sl[2], f[sl].status, f[sl].class_id, 1,
          f[sl].remark, 0, 0) : sl \in DOMAIN f} :
        f \in UNION {[S -> AggRowChoices] : S \in SUBSET slots}}

InitAgg ==
    /\ db \in AggStores(AggSlots)
    /\ wdb = {}
    /\ lock = NoLock
    /\ pc = [p \in Procs |-> "idle"]
    /\ loc = [p \in Procs |-> IdleLoc]
    /\ clock = 0
    /\ result = [p \in Procs |-> "none"]
    /\ lastDone = [kind |-> "none"]
    /\ summary = NoSummary
    /\ schedule = {}
    /\ weekday = "Mon"
    /\ now = 0
    /\ resolved = NoResolved
    /\ school_class = TwoClasses
    /\ xlsx = NoFile

NextAgg == \E c \in Classes : staff_dashboard(c)

SpecAgg == InitAgg /\ [][NextAgg]_vars

\* ------------------------------------------- submissions under a schedule
\* One client submitting at some time of a day that has no period, or a first
\* period for the whole school and a second one for the class of the roster.
SubmitSchedules ==
    {{},
     {PeriodRow("Mon", 1, HHMM(1), HHMM(1), NULL),
      PeriodRow("Mon", 2, HHMM(2), HHMM(2), class_id)}}

InitSubmit ==
    /\ db = {}
    /\ wdb = {}
    /\ lock = NoLock
    /\ pc = [p \in Procs |-> "idle"]
    /\ loc = [p \in Procs |-> IdleLoc]
    /\ clock = 0
    /\ result = [p \in Procs |-> "none"]
    /\ lastDone = [kind |-> "none"]
    /\ summary = NoSummary
    /\ schedule \in SubmitSchedules
    /\ weekday = "Mon"
    /\ now \in Ticks
    /\ resolved = NoResolved
    /\ school_class = TwoClasses
    /\ xlsx = NoFile

SpecSubmit == InitSubmit /\ [][NextSeq]_vars

\* ------------------------------------------------ the period table's editors
\* Rows the period table can hold in the runs of the editors.
MaxPeriodRows == 3

\* a row of the period table with its AUTOINCREMENT id
PeriodRowWithId(id, day, per, st, en, c) ==
    [id |-> id, day_of_week |-> day, period |-> per, start_time |-> st, end_time |-> en,
     class_id |-> c]

\* SELECT id FROM period WHERE day_of_week = ? AND period = ?
\*   AND (class_id IS NULL OR class_id = ?)
same_day_number_class(sched, day, period_no, c) ==
    {r \in sched : /\ r.day_of_week = day
                   /\ r.period = period_no
                   /\ (r.class_id = NULL \/ (c # NULL /\ SqlEq(r.class_id, c)))}

\* UNIQUE(day_of_week, period, class_id) against the rows `others`: sqlite
\* takes two NULL class_id for different values
period_unique_violation(others, day, period_no, c) ==
    \E r \in others : /\ r.day_of_week = day
                      /\ r.period = period_no
                      /\ c # NULL /\ r.class_id # NULL /\ r.class_id = c

\* the rest of the model's state, which the editors leave alone
editorFrame == <<db, wdb, lock, clock, lastDone, viewVarsButSchedule, fileVars>>

\* admin_periods_create (POST) up to the duplicate check
admin_periods_create_check(p, day, period_no, c) ==
    /\ pc[p] = "idle"
    /\ Cardinality(schedule) + Cardinality({q \in Procs : pc[q] = "period_insert"})
          < MaxPeriodRows
    /\ IF same_day_number_class(schedule, day, period_no, c) # {}
         THEN /\ result' = [result EXCEPT ![p] =
                    "A period with the same day/number and class already exists"]
              /\ UNCHANGED <<pc, loc>>
         ELSE /\ pc' = [pc EXCEPT ![p] = "period_insert"]
              /\ loc' = [loc EXCEPT ![p] = [kind |-> "period_create", day |-> day,
                                            period_no |-> period_no, class_id |-> c]]
              /\ result' = [result EXCEPT ![p] = "pending"]
    /\ UNCHANGED schedule
    /\ UNCHANGED editorFrame

\* admin_periods_create: INSERT INTO period ..., commit, flash
admin_periods_create_insert(p) ==
    /\ pc[p] = "period_insert"
    /\ LET l == loc[p]
       IN IF period_unique_violation(schedule, l.day, l.period_no, l.class_id)
            THEN /\ result' = [result EXCEPT ![p] = "IntegrityError"]
                 /\ UNCHANGED schedule
            ELSE /\ schedule' = schedule \cup
                        {PeriodRowWithId(NextId(schedule), l.day, l.period_no,
                                         TimeNull, TimeNull, l.class_id)}
                 /\ result' = [result EXCEPT ![p] = "Period created"]
    /\ pc' = [pc EXCEPT ![p] = "idle"]
    /\ loc' = [loc EXCEPT ![p] = IdleLoc]
    /\ UNCHANGED editorFrame

\* admin_periods_edit (POST) up to the duplicate check; fetchone() returns any
\* one of the rows the query matches, the query having no ORDER BY
admin_periods_edit_check(p, period_id, new_day, new_period, new_class_id) ==
    /\ pc[p] = "idle"
    /\ LET matching == same_day_number_class(schedule, new_day, new_period, new_class_id)
           proceed ==
               /\ pc' = [pc EXCEPT ![p] = "period_update"]
               /\ loc' = [loc EXCEPT ![p] = [kind |-> "period_edit", period_id |-> period_id,
                                             day |-> new_day, period_no |-> new_period,
                                             class_id |-> new_class_id]]
               /\ result' = [result EXCEPT ![p] = "pending"]
       IN IF \A r \in schedule : r.id # period_id
            THEN /\ result' = [result EXCEPT ![p] = "Period not found"]
                 /\ UNCHANGED <<pc, loc>>
            ELSE IF matching = {} THEN proceed
            ELSE \E existing \in matching :
                    IF existing.id # period_id
                      THEN /\ result' = [result EXCEPT ![p] =
                                 "Another period with same day/number and class exists"]
                           /\ UNCHANGED <<pc, loc>>
                      ELSE proceed
    /\ UNCHANGED schedule
    /\ UNCHANGED editorFrame

\* admin_periods_edit: UPDATE period SET ... WHERE id = ?, commit, flash
admin_periods_edit_update(p) ==
    /\ pc[p] = "period_update"
    /\ LET l == loc[p]
           target == {r \in schedule : r.id = l.period_id}
       IN IF target # {} /\ period_unique_violation(schedule \ target, l.day, l.period_no,
                                                    l.class_id)
            THEN /\ result' = [result EXCEPT ![p] = "IntegrityError"]
                 /\ UNCHANGED schedule
            ELSE /\ schedule' = (schedule \ target) \cup
                        {[r EXCEPT !.day_of_week = l.day, !.period = l.period_no,
                                   !.class_id = l.class_id] : r \in target}
                 /\ result' = [result EXCEPT ![p] = "Period updated"]
    /\ pc' = [pc EXCEPT ![p] = "idle"]
    /\ loc' = [loc EXCEPT ![p] = IdleLoc]
    /\ UNCHANGED editorFrame

\* two administrators creating and editing the periods of one day
PeriodIds == 1 .. MaxPeriodRows

NextSchedule ==
    \E p \in Procs :
        \/ \E per \in Periods, c \in Scopes : admin_periods_create_check(p, weekday, per, c)
        \/ admin_periods_create_insert(p)
        \/ \E id \in PeriodIds, per \in Periods, c \in Scopes :
               admin_periods_edit_check(p, id, weekday, per, c)
        \/ admin_periods_edit_update(p)

SpecSchedule == Init /\ [][NextSchedule]_vars

\* --------------------------------------------------------- update_daily_excel
\* Names are sequences of characters.
\* the length Excel allows a sheet title
SheetNameLimit == 31

\* invalid_re = r"[:\\\\/?*\[\]]"
InvalidChars == {":", "\\", "/", "?", "*", "[", "]"}

\* characters str.strip() removes
Whitespace == {" "}

\* re.sub(invalid_re, '-', name)
re_sub(name) == [i \in DOMAIN name |-> IF name[i] \in InvalidChars THEN "-" ELSE name[i]]

RECURSIVE lstrip(_)
lstrip(s) == IF s # <<>> /\ Head(s) \in Whitespace THEN lstrip(Tail(s)) ELSE s

RECURSIVE rstrip(_)
rstrip(s) ==
    IF s # <<>> /\ s[Len(s)] \in Whitespace THEN rstrip(SubSeq(s, 1, Len(s) - 1)) ELSE s

\* str.strip()
strip(s) == rstrip(lstrip(s))

\* s[:n]
Slice(s, n) == IF Len(s) <= n THEN s ELSE SubSeq(s, 1, n)

\* str.startswith
startswith(s, prefix) == Len(prefix) <= Len(s) /\ SubSeq(s, 1, Len(prefix)) = prefix

\* str(i), for the numbers a suffix can carry
RECURSIVE str(_)
str(i) ==
    LET digits == <<"0", "1", "2", "3", "4", "5", "6", "7", "8", "9">>
    IN IF i < 10 THEN <<digits[i + 1]>> ELSE str(i \div 10) \o <<digits[(i % 10) + 1]>>

\* a workbook is the sequence of its sheets, each a title and its rows
sheetnames(wb) == [i \in DOMAIN wb |-> wb[i].title]
SheetNameSet(wb) == {wb[i].title : i \in DOMAIN wb}

\* get_safe_sheet_name: the while loop, from candidate and i
RECURSIVE safe_candidate(_, _, _, _)
safe_candidate(wb, base, candidate, i) ==
    IF candidate \in SheetNameSet(wb)
      THEN LET suffix == <<"_">> \o str(i)
               max_base_len == SheetNameLimit - Len(suffix)
           IN safe_candidate(wb, base, rstrip(Slice(base, max_base_len)) \o suffix, i + 1)
      ELSE candidate

\* get_safe_sheet_name(wb, name)
get_safe_sheet_name(wb, name) ==
    LET stripped == Slice(strip(re_sub(name)), SheetNameLimit)
        base == IF stripped = <<>> THEN <<"S", "h", "e", "e", "t">> ELSE stripped
    IN safe_candidate(wb, base, base, 1)

\* clean_class_name = re.sub(invalid_re, '-', klass.name).strip()[:31]
clean_class_name(name) == Slice(strip(re_sub(name)), SheetNameLimit)

\* `for sheet_name in wb.sheetnames: if sheet_name.startswith(clean_class_name)`:
\* the index of the first sheet whose title starts with the clean class name, 0
\* when there is none
find_existing_sheet(wb, name) ==
    LET hits == {i \in DOMAIN wb : startswith(wb[i].title, clean_class_name(name))}
    IN IF hits = {} THEN 0 ELSE CHOOSE i \in hits : \A j \in hits : i <= j

\* A cell value. Every cell has the same fields: the kind of text, a literal
\* text, two numbers, a name and a set of teacher ids, of which a kind uses some.
Cell(kind, text, n, m, name, ids) ==
    [kind |-> kind, text |-> text, n |-> n, m |-> m, name |-> name, ids |-> ids]

\* a cell the file holds no value for
BlankCell == Cell("blank", "", 0, 0, <<>>, {})
\* a literal text: '', 'P', 'A', 'E', ':'
TextCell(t) == Cell("text", t, 0, 0, <<>>, {})
\* f': {today_str}  : {klass.name}'
TitleCell(dt, name) == Cell("title", dt, 0, 0, name, {})
\* s.name, the student being identified by the id
StudentCell(sid) == Cell("student", "", sid, 0, <<>>, {})
\* f'P{p}'
PeriodCell(p) == Cell("P{p}", "", p, 0, <<>>, {})
\* f"P:{present_cnt} A:{absent_cnt}"
TotalsCell(t) == Cell("P:{present_cnt} A:{absent_cnt}", "", t.present, t.absent, <<>>, {})
\* ', '.join(names) after the literal `prefix`; the order of the names is the
\* order the DISTINCT query returns them in and is not modelled
TeacherNamesCell(prefix, ids) == Cell("teacher_names", prefix, 0, 0, <<>>, ids)

\* the elements of a set of numbers in ascending order
RECURSIVE Ascending(_)
Ascending(S) ==
    IF S = {} THEN <<>>
    ELSE LET x == CHOOSE y \in S : \A z \in S : y <= z IN <<x>> \o Ascending(S \ {x})

\* [f(x) for x in seq]
MapSeq(f(_), seq) == [i \in DOMAIN seq |-> f(seq[i])]

\* mutant: an excused absence is written as an absence
att_symbol_NoExcused(d, sid, dt, period, c) ==
    LET att == {r \in d : r.student_id = sid /\ r.date = dt /\ r.period = period
                          /\ SqlEq(r.class_id, c)}
    IN IF att = {} THEN TextCell("")
       ELSE IF \E r \in att : r.status = "absent" THEN TextCell("A")
       ELSE TextCell("P")

\* SELECT status, remark FROM attendance WHERE student_id = ? AND date = ?
\*   AND period = ? AND class_id = ?  and the symbol appended for it
att_symbol(d, sid, dt, period, c) ==
    LET att == {r \in d : r.student_id = sid /\ r.date = dt /\ r.period = period
                          /\ SqlEq(r.class_id, c)}
    IN IF att = {} THEN TextCell("")
       ELSE LET a == CHOOSE r \in att : TRUE
            IN IF a.status = "absent"
                 THEN IF a.remark = "excused" THEN TextCell("E") ELSE TextCell("A")
                 ELSE TextCell("P")

\* SELECT DISTINCT u.name FROM attendance a JOIN user u ON a.teacher_id = u.id
\*   WHERE a.date = ? AND a.class_id = ?
teacher_rows(d, dt, c) == {r.teacher_id : r \in {x \in d : x.date = dt /\ SqlEq(x.class_id, c)}}

\* mutant: the rows of a sheet are kept and the new ones appended below
delete_rows_Nothing(rows, idx, amount) == rows

\* ws.delete_rows(idx, amount)
delete_rows(rows, idx, amount) ==
    SubSeq(rows, 1, idx - 1)
        \o (IF idx + amount <= Len(rows) THEN SubSeq(rows, idx + amount, Len(rows)) ELSE <<>>)

\* ws.max_row
max_row(rows) == IF rows = <<>> THEN 1 ELSE Len(rows)

\* the rows appended to the sheet of class klass, in order: title, header, one
\* row per student, totals, teachers
class_rows(d, dt, klass) ==
    LET periods_list == Ascending(distinct_periods(d, dt, klass.id))
        roster == students_rows(klass.id)
        period_cell(p) == PeriodCell(p)
        header == <<TextCell("")>> \o MapSeq(period_cell, periods_list)
        student_row(sid) ==
            LET symbol(p) == att_symbol(d, sid, dt, p, klass.id)
            IN <<StudentCell(sid)>> \o MapSeq(symbol, periods_list)
        total(p) == TotalsCell(excel_totals(d, dt, klass.id, p))
        totals == <<TextCell("")>> \o MapSeq(total, periods_list)
        teacher_names == teacher_rows(d, dt, klass.id)
        teacher_row ==
            IF Len(header) > 1
              THEN <<TextCell(":"), TeacherNamesCell("", teacher_names)>>
                       \o [i \in 1 .. (Len(header) - 2) |-> TextCell("")]
              ELSE <<TeacherNamesCell(": ", teacher_names)>>
    IN <<<<TitleCell(dt, klass.name)>>, header>>
           \o MapSeq(student_row, roster)
           \o <<totals, teacher_row>>

\* one pass of `for krow in classes_rows`: the sheet of the class is found or
\* created, cleared and written
render_class(wb, d, dt, klass) ==
    LET existing_sheet == find_existing_sheet(wb, klass.name)
        wb1 == IF existing_sheet # 0 THEN wb
               ELSE Append(wb, [title |-> get_safe_sheet_name(wb, klass.name), rows |-> <<>>])
        ws == IF existing_sheet # 0 THEN existing_sheet ELSE Len(wb1)
        cleared == delete_rows(wb1[ws].rows, 1, max_row(wb1[ws].rows))
    IN [wb1 EXCEPT ![ws].rows = cleared \o class_rows(d, dt, klass)]

\* the sheet render_class writes class klass into
sheet_of(wb, klass) ==
    IF find_existing_sheet(wb, klass.name) # 0 THEN find_existing_sheet(wb, klass.name)
    ELSE Len(wb) + 1

RECURSIVE render_classes(_, _, _, _)
render_classes(wb, d, dt, classes_rows) ==
    IF classes_rows = <<>> THEN wb
    ELSE render_classes(render_class(wb, d, dt, Head(classes_rows)), d, dt, Tail(classes_rows))

\* name order of two classes in SELECT * FROM school_class ORDER BY name: sqlite
\* compares the texts byte by byte
CharCode(ch) ==
    CASE ch = " " -> 32 [] ch = "*" -> 42 [] ch = "-" -> 45 [] ch = "/" -> 47
      [] ch = "1" -> 49 [] ch = "2" -> 50 [] ch = ":" -> 58 [] ch = "A" -> 65 [] ch = "B" -> 66
      [] ch = "x" -> 120

RECURSIVE NameLeq(_, _)
NameLeq(a, b) ==
    IF a = <<>> THEN TRUE
    ELSE IF b = <<>> THEN FALSE
    ELSE IF Head(a) = Head(b) THEN NameLeq(Tail(a), Tail(b))
    ELSE CharCode(Head(a)) < CharCode(Head(b))

\* the orders SELECT * FROM school_class ORDER BY name can return the rows in:
\* rows of equal name come in either order
RECURSIVE Orderings(_)
Orderings(S) ==
    IF S = {} THEN {<<>>}
    ELSE UNION {{<<k>> \o rest : rest \in Orderings(S \ {k})} :
                   k \in {x \in S : \A y \in S : NameLeq(x.name, y.name)}}

\* wb.save(fname): a cell holding '' is written without a value
saved_cell(cell) == IF cell = TextCell("") THEN BlankCell ELSE cell
saved_row(row) == MapSeq(saved_cell, row)
saved_sheet(sheet) == [title |-> sheet.title, rows |-> MapSeq(saved_row, sheet.rows)]
xlsx_save(wb) == [exists |-> TRUE, sheets |-> MapSeq(saved_sheet, wb)]

\* load_workbook(fname) if the file exists, else Workbook() without its 'Sheet'
xlsx_load(file) == IF file.exists THEN file.sheets ELSE <<>>

\* update_daily_excel up to the class query: the workbook is loaded, or created
\* when the day has no file yet, and the classes are read
update_daily_excel_load(p) ==
    /\ pc[p] = "excel_load"
    /\ \E classes_rows \in Orderings(school_class) :
          loc' = [loc EXCEPT ![p].wb = xlsx_load(xlsx),
                             ![p].classes_rows = classes_rows,
                             ![p].classes_all = classes_rows]
    /\ pc' = [pc EXCEPT ![p] = "excel_class"]
    /\ UNCHANGED <<db, wdb, lock, clock, result, lastDone, viewVars, fileVars>>

\* update_daily_excel: one pass of the loop over the classes, reading the
\* committed table
update_daily_excel_class(p) ==
    /\ pc[p] = "excel_class"
    /\ loc[p].classes_rows # <<>>
    /\ loc' = [loc EXCEPT ![p].wb = render_class(loc[p].wb, db, today,
                                                 Head(loc[p].classes_rows)),
                          ![p].classes_rows = Tail(loc[p].classes_rows)]
    /\ UNCHANGED <<db, wdb, lock, pc, clock, result, lastDone, viewVars, fileVars>>

\* update_daily_excel: wb.save(fname), after the last class; the handler goes on
\* to its flash message
update_daily_excel_save(p) ==
    /\ pc[p] = "excel_class"
    /\ loc[p].classes_rows = <<>>
    /\ xlsx' = xlsx_save(loc[p].wb)
    /\ pc' = [pc EXCEPT ![p] = IF loc[p].kind = "submit" THEN "saved" ELSE "remark_done"]
    /\ UNCHANGED <<db, wdb, lock, loc, clock, result, lastDone, viewVars, school_class>>

\* -------------------------------------------- requests that rebuild the workbook
\* ids the school_class table hands out, in order
ClassIds == <<class_id, "c2">>

\* admin_classes_create (POST): INSERT INTO school_class (name) VALUES (?)
admin_classes_create(name) ==
    /\ \A p \in Procs : pc[p] = "idle"
    /\ Cardinality(school_class) < Len(ClassIds)
    /\ school_class' = school_class \cup
           {[id |-> ClassIds[Cardinality(school_class) + 1], name |-> name]}
    /\ UNCHANGED <<db, wdb, lock, pc, loc, clock, result, lastDone, viewVars, xlsx>>

\* a class name longer than a sheet title can be, ending in ch
LongName(ch) == [i \in 1 .. (SheetNameLimit + 1) |-> IF i <= SheetNameLimit THEN "x" ELSE ch]

\* names a second class is created with next to class "1A"
AddedNames == {<<"1", "B">>, <<"1">>, <<"1", "A">>}

\* the school_class tables a run starts from: the class of the roster alone, or
\* two classes whose names differ, or are equal once cleaned, or of which one
\* begins the other, or is empty
ClassTables ==
    {{[id |-> class_id, name |-> n[1]]} \cup
        (IF n[2] = <<"none">> THEN {} ELSE {[id |-> "c2", name |-> n[2]]}) :
     n \in {<< <<"1", "A">>, <<"none">> >>,
            << <<"1", "A">>, <<"1", "B">> >>,
            << <<"1", "A">>, <<"1">> >>,
            << <<"1", "/">>, <<"1", ":">> >>,
            << <<" ", "1", "A">>, <<"1", "A">> >>,
            << LongName("A"), LongName("B") >>,
            << <<"1", "A">>, <<"1", "A">> >>,
            << <<"1", "A">>, <<>> >>}}

\* admin_attendance_delete: DELETE FROM attendance WHERE id = att_id, committed at
\* once; the workbook is not rebuilt. One request at a time.
admin_attendance_delete(att_id) ==
    /\ \A p \in Procs : pc[p] = "idle"
    /\ db' = {r \in db : r.id # att_id}
    /\ UNCHANGED <<wdb, lock, pc, loc, clock, result, lastDone, viewVars, fileVars>>

InitReport ==
    /\ db = {}
    /\ wdb = {}
    /\ lock = NoLock
    /\ pc = [p \in Procs |-> "idle"]
    /\ loc = [p \in Procs |-> IdleLoc]
    /\ clock = 0
    /\ result = [p \in Procs |-> "none"]
    /\ lastDone = [kind |-> "none"]
    /\ summary = NoSummary
    /\ schedule = {}
    /\ weekday = "Mon"
    /\ now = 0
    /\ resolved = NoResolved
    /\ school_class \in ClassTables
    /\ xlsx = NoFile

\* the records the administrator deletes in these runs: those of a later period
\* of the students after the first
DeletedIds == {r.id : r \in {x \in db : x.student_id # students[1] /\ x.period # 1}}

\* the forms of the runs that include the workbook: every student present, or
\* the first student absent and the others present
ReportForms ==
    {[s \in RosterSet |-> "present"],
     [s \in RosterSet |-> IF s = students[1] THEN "absent" ELSE "present"]}

\* one client, one request at a time, every write followed by its rebuild
NextReport ==
    \/ \E p \in SeqProcs :
        \/ \E field \in PeriodFields, form \in ReportForms :
               teacher_dashboard_post(p, field, form, FALSE)
        \/ teacher_dashboard_select(p)
        \/ teacher_dashboard_write(p)
        \/ teacher_dashboard_commit(p, TRUE)
        \/ teacher_dashboard_saved(p, FALSE)
        \/ \E sid \in RosterSet, per \in Periods, remark \in RemarkInputs :
               staff_update_remark_check(p, sid, per, remark, FALSE)
        \/ staff_update_remark_update(p)
        \/ staff_update_remark_commit(p, TRUE)
        \/ staff_update_remark_done(p, FALSE)
        \/ update_daily_excel_load(p)
        \/ update_daily_excel_class(p)
        \/ update_daily_excel_save(p)
    \/ \E name \in AddedNames : admin_classes_create(name)
    \/ \E att_id \in DeletedIds : admin_attendance_delete(att_id)

SpecReport == InitReport /\ [][NextReport]_vars

\* Concurrent requests whose writes are followed by their rebuild of the day's
\* workbook: two clients, one class, submissions for the first period and
\* remarks for it; the steps of the requests, the rebuilds included, interleave.
OneClass == {[id |-> class_id, name |-> <<"1", "A">>]}

InitRebuild ==
    /\ db = {}
    /\ wdb = {}
    /\ lock = NoLock
    /\ pc = [p \in Procs |-> "idle"]
    /\ loc = [p \in Procs |-> IdleLoc]
    /\ clock = 0
    /\ result = [p \in Procs |-> "none"]
    /\ lastDone = [kind |-> "none"]
    /\ summary = NoSummary
    /\ schedule = {}
    /\ weekday = "Mon"
    /\ now = 0
    /\ resolved = NoResolved
    /\ school_class = OneClass
    /\ xlsx = NoFile

NextRebuild ==
    \E p \in Procs :
        \/ \E field \in SamePeriodFields, form \in ReportForms :
               teacher_dashboard_post(p, field, form, FALSE)
        \/ teacher_dashboard_select(p)
        \/ teacher_dashboard_write(p)
        \/ teacher_dashboard_commit(p, TRUE)
        \/ teacher_dashboard_saved(p, FALSE)
        \/ \E remark \in {"excused", "still absent"} :
               staff_update_remark_check(p, students[1], 1, remark, FALSE)
        \/ staff_update_remark_update(p)
        \/ staff_update_remark_commit(p, TRUE)
        \/ staff_update_remark_done(p, FALSE)
        \/ database_is_locked(p)
        \/ update_daily_excel_load(p)
        \/ update_daily_excel_class(p)
        \/ update_daily_excel_save(p)

SpecRebuild == InitRebuild /\ [][NextRebuild]_vars

\* mutant: the connection commits every statement as it is executed
storage_failure_Autocommit(p) ==
    /\ loc[p].kind = "submit"
    /\ pc[p] \in {"select", "write", "commit"}
    /\ lock = {p}
    /\ db' = wdb
    /\ wdb' = {}
    /\ lock' = NoLock
    /\ result' = [result EXCEPT ![p] = "sqlite3.Error"]
    /\ loc' = [loc EXCEPT ![p] = IdleLoc]
    /\ pc' = [pc EXCEPT ![p] = "idle"]
    /\ UNCHANGED <<clock, lastDone, viewVars, fileVars>>

\* A statement of the loop, or the commit, raises sqlite3.Error after the request
\* has written for at least one student (it holds the write lock): the exception
\* leaves teacher_dashboard, the teardown closes the connection, which rolls its
\* open transaction back, and the request ends with an error response.
storage_failure(p) ==
    /\ loc[p].kind = "submit"
    /\ pc[p] \in {"select", "write", "commit"}
    /\ lock = {p}
    /\ db' = db
    /\ wdb' = {}
    /\ lock' = NoLock
    /\ result' = [result EXCEPT ![p] = "sqlite3.Error"]
    /\ loc' = [loc EXCEPT ![p] = IdleLoc]
    /\ pc' = [pc EXCEPT ![p] = "idle"]
    /\ UNCHANGED <<clock, lastDone, viewVars, fileVars>>

\* the concurrent requests, any of which may fail in the middle of its writes
NextFailure ==
    \/ Next
    \/ \E p \in Procs : storage_failure(p)

SpecFailure == Init /\ [][NextFailure]_vars

\* admin_classes_edit, POST: the row is read by id ('Class not found' when there
\* is none), UPDATE school_class SET name = ? WHERE id = ?, committed at once.
\* One request at a time.
admin_classes_edit(edited_id, name) ==
    /\ \A p \in Procs : pc[p] = "idle"
    /\ \E k \in school_class : k.id = edited_id
    /\ school_class' = {IF k.id = edited_id THEN [k EXCEPT !.name = name] ELSE k :
                           k \in school_class}
    /\ UNCHANGED <<db, wdb, lock, pc, loc, clock, result, lastDone, viewVars, xlsx>>

\* admin_classes_delete: DELETE FROM school_class WHERE id = ?, committed at
\* once; the connection does not enforce foreign keys. One request at a time.
admin_classes_delete(deleted_id) ==
    /\ \A p \in Procs : pc[p] = "idle"
    /\ \E k \in school_class : k.id = deleted_id
    /\ school_class' = {k \in school_class : k.id # deleted_id}
    /\ UNCHANGED <<db, wdb, lock, pc, loc, clock, result, lastDone, viewVars, xlsx>>

\* One client submitting for the roster's class, every submission followed by
\* its rebuild, while the administrator renames or deletes the other class.
NewNames == {<<"2", "B">>, <<"1", "B">>}

NextClasses ==
    \/ \E p \in SeqProcs :
        \/ \E field \in PeriodFields, form \in ReportForms :
               teacher_dashboard_post(p, field, form, FALSE)
        \/ teacher_dashboard_select(p)
        \/ teacher_dashboard_write(p)
        \/ teacher_dashboard_commit(p, TRUE)
        \/ teacher_dashboard_saved(p, FALSE)
        \/ update_daily_excel_load(p)
        \/ update_daily_excel_class(p)
        \/ update_daily_excel_save(p)
    \/ \E name \in NewNames : admin_classes_edit("c2", name)
    \/ admin_classes_delete("c2")

SpecClasses == Init /\ [][NextClasses]_vars

\* ------------------------------------------------------------------ claims
SameKey(r1, r2) ==
    r1.student_id = r2.student_id /\ r1.date = r2.date /\ r1.period = r2.period

UniqueTriple(d) == \A r1, r2 \in d : SameKey(r1, r2) => r1 = r2

\* C1: in every reachable state the attendance table, committed or inside the
\* open transaction, holds at most one record per (student_id, date, period).
C1_OneRecordPerTriple == UniqueTriple(db) /\ UniqueTriple(wdb)

\* C1 witness: a submission that found no record for its first student has
\* written it all the same by updating the record a concurrent submission
\* inserted in between (the row was created at another request's time).
C1_Witness ==
    \E p \in Procs :
        /\ pc[p] = "select" /\ loc[p].i = 2 /\ lock = {p}
        /\ ~loc[p].existing.found
        /\ \E r \in wdb : /\ r.student_id = students[1]
                           /\ r.period = loc[p].period
                           /\ r.updated_at = loc[p].current_time
                           /\ r.created_at # loc[p].current_time

\* C2 (as claimed): every committed record with status present has no remark.
C2_PresentHasNoRemark == \A r \in db : r.status = "present" => r.remark = NULL

\* the columns of the table other than updated_at
AllButUpdatedAt(d) ==
    {[id |-> r.id, student_id |-> r.student_id, date |-> r.date, period |-> r.period,
      status |-> r.status, class_id |-> r.class_id, teacher_id |-> r.teacher_id,
      remark |-> r.remark, created_at |-> r.created_at] : r \in d}

\* the records with their status and remark
StatusRemark(d) ==
    {[id |-> r.id, student_id |-> r.student_id, date |-> r.date, period |-> r.period,
      status |-> r.status, remark |-> r.remark] : r \in d}

SameSubmission(p) ==
    /\ lastDone.kind = "submit"
    /\ lastDone.period = loc[p].period
    /\ lastDone.form = loc[p].form

\* C3: when a submission commits right after a submission of the same form for
\* the same period, with no request in between, the commit leaves the set of
\* records and every record's status and remark as they were; when the teacher
\* is the same too, only updated_at may differ.
C3_Idempotent ==
    [][\A p \in Procs :
          (pc[p] = "commit" /\ pc'[p] = "saved" /\ SameSubmission(p))
            => /\ StatusRemark(db') = StatusRemark(db)
               /\ lastDone.teacher_id = loc[p].teacher_id
                     => AllButUpdatedAt(db') = AllButUpdatedAt(db)]_vars

\* C3 witness: the second of two equal submissions has committed, over a table
\* holding an excused absence and a record the two submissions created.
C3_Witness ==
    \E p \in Procs :
        /\ pc[p] = "saved" /\ SameSubmission(p)
        /\ \E r \in db : r.status = "absent" /\ r.remark = "excused"
                          /\ r.updated_at = loc[p].current_time
        /\ \E r \in db : r.created_at # 0 /\ r.updated_at = loc[p].current_time
                          /\ r.created_at # r.updated_at

\* C4: a write that found the student's record absent and carries the new
\* status present leaves that record (present, no remark).
C4_TransitionClearsRemark ==
    [][\A p \in Procs :
          (/\ pc[p] = "write" /\ pc'[p] \in {"select", "commit"}
           /\ loc[p].existing.found /\ loc[p].existing.status = "absent"
           /\ FormGet(loc[p].form, students[loc[p].i]) = "present")
            => \E r \in wdb' : /\ r.id = loc[p].existing.id
                                /\ r.student_id = students[loc[p].i]
                                /\ r.period = loc[p].period
                                /\ r.status = "present"
                                /\ r.remark = NULL]_vars

\* C4 witness: inside a submission's transaction a record committed as an excused
\* (or still absent) absence now reads (present, no remark).
C4_Witness ==
    \E p \in Procs :
        /\ lock = {p} /\ loc[p].kind = "submit"
        /\ \E r \in db, w \in wdb :
              /\ r.id = w.id
              /\ r.status = "absent" /\ r.remark \in {"excused", "still absent"}
              /\ w.status = "present" /\ w.remark = NULL

ValidRemarks == {"excused", "still absent", ""}

\* C5: a remark request (with a valid remark value) for an existing record whose
\* status is not absent ends with the refusal message and changes no record.
C5_RemarkGuard ==
    [][\A p \in Procs, sid \in RosterSet, per \in Periods, remark \in ValidRemarks :
          (/\ staff_update_remark_check(p, sid, per, remark, FALSE)
           /\ \E r \in db : r.student_id = sid /\ r.date = today /\ r.period = per
                              /\ r.status # "absent")
            => /\ result'[p] = "Remarks can only be added for absent students"
               /\ pc'[p] = "idle"
               /\ db' = db /\ wdb' = wdb]_vars

\* C5 witness: a remark request has been refused while the student's record is
\* present.
C5_Witness ==
    \E p \in Procs :
        /\ pc[p] = "idle"
        /\ result[p] = "Remarks can only be added for absent students"
        /\ \E r \in db : r.status = "present"

\* C6: the commit of a remark request changes one record, the one addressed by
\* (student_id, date, period), and of it only remark and updated_at; no record
\* is created or deleted.
C6_RemarkFrame ==
    [][\A p \in Procs :
          (pc[p] = "remark_commit" /\ pc'[p] = "remark_done")
            => \E r \in db, w \in db' :
                  /\ r.student_id = loc[p].student_id /\ r.date = today
                  /\ r.period = loc[p].period
                  /\ db' \ {w} = db \ {r}
                  /\ w = [r EXCEPT !.remark = w.remark, !.updated_at = w.updated_at]
                  /\ w.remark = (IF loc[p].remark = "" THEN NULL ELSE loc[p].remark)
                  /\ w.updated_at = loc[p].current_time]_vars

\* C6 witness: a remark request has committed an excusal while the table holds
\* a second record.
C6_Witness ==
    \E p \in Procs :
        /\ pc[p] = "remark_done" /\ loc[p].remark = "excused"
        /\ \E r \in db : r.student_id = loc[p].student_id /\ r.remark = "excused"
                          /\ r.updated_at = loc[p].current_time
        /\ Cardinality(db) > 1

\* the records of a class and period on the day of the dashboard
Recorded(c, p) == {r \in db : r.class_id = c /\ r.date = today /\ r.period = p}

\* the totals the specification defines for a class and period
ClaimedTotals(c, p) ==
    [present |-> Cardinality({r \in Recorded(c, p) : r.status = "present"})
                   + Cardinality({r \in Recorded(c, p) :
                                     r.status = "absent" /\ r.remark = "excused"}),
     absent |-> Cardinality({r \in Recorded(c, p) :
                                r.status = "absent" /\ r.remark \in {NULL, "still absent"}})]

\* C7: for the class of a computed summary and for every class, the period
\* counts cover exactly the recorded periods, and for each of them present is the
\* number of present records plus the excused absences and absent the number of
\* absences whose remark is none or still absent; the totals of the daily sheet
\* are computed alike.
C7_PeriodTotals ==
    /\ summary # NoSummary =>
          /\ DOMAIN summary.period_counts =
                {p \in Periods : Recorded(summary.class_id, p) # {}}
          /\ \A p \in DOMAIN summary.period_counts :
                summary.period_counts[p] = ClaimedTotals(summary.class_id, p)
    /\ \A c \in Classes, p \in Periods :
          Recorded(c, p) # {} => excel_totals(db, today, c, p) = ClaimedTotals(c, p)

\* C7 witness: a summary whose first period holds an excused absence and a plain
\* absence next to each other, counted one present and one absent.
C7_Witness ==
    /\ summary # NoSummary
    /\ \E r1, r2 \in Recorded(summary.class_id, 1) :
          /\ r1.status = "absent" /\ r1.remark = "excused"
          /\ r2.status = "absent" /\ r2.remark = NULL
    /\ summary.period_counts[1] = [present |-> 1, absent |-> 1]

\* the daily status the specification defines for a student of a class
ClaimedOverall(c, sid) ==
    LET recs == {r \in db : r.student_id = sid /\ r.date = today /\ r.class_id = c}
    IN IF recs = {} THEN "not_recorded"
       ELSE IF \E r \in recs : r.status = "absent" /\ r.remark # "excused" THEN "absent"
       ELSE "present"

\* C8: in a computed summary every student of the class is not_recorded without
\* a record, absent with at least one absence that is not excused, and present
\* otherwise.
C8_OverallStatus ==
    summary # NoSummary =>
        /\ DOMAIN summary.students = DOMAIN students_rows(summary.class_id)
        /\ \A i \in DOMAIN summary.students :
              summary.students[i].overall_status =
                  ClaimedOverall(summary.class_id, summary.students[i].student)

\* C8 witness: a summary of the roster's class in which one student, excused in
\* one period and present in the other, is present, and the other student,
\* present in the first period and absent in the second, is absent.
C8_Witness ==
    /\ summary # NoSummary /\ summary.class_id = class_id
    /\ \E i, j \in DOMAIN summary.students :
          /\ summary.students[i].overall_status = "present"
          /\ \E r \in db : /\ r.student_id = summary.students[i].student
                            /\ r.class_id = class_id
                            /\ r.status = "absent" /\ r.remark = "excused"
          /\ summary.students[j].overall_status = "absent"
          /\ \E r \in db : /\ r.student_id = summary.students[j].student
                            /\ r.class_id = class_id /\ r.period = 1
                            /\ r.status = "present"

\* the schedule entries of the current day in the scope of a resolution: the
\* entries of the whole school, and those of the class when one is given
Applicable(c) ==
    {r \in schedule : /\ r.day_of_week = weekday
                      /\ (r.class_id = NULL \/ (c # NULL /\ r.class_id = c))}

\* the entry has a start s and an end e, both in minutes
HasRange(r) == r.start_time.kind = "HH:MM" /\ r.end_time.kind = "HH:MM"

\* s <= now <= e, the minutes s and e taken at their first instant
Contains(r) == HasRange(r) /\ 2 * r.start_time.minute <= now /\ now <= 2 * r.end_time.minute

\* C9: after either resolution, an entry of the day and scope whose range
\* s..e contains the time, the two ends included, makes the resolution find a
\* period, that entry's when no other entry contains the time; and when the
\* time lies before s or after e and no other entry contains it, nothing is
\* found.
C9_InclusiveBoundaries ==
    resolved # NoResolved =>
        \A r \in Applicable(resolved.class_id) :
            HasRange(r) =>
                /\ Contains(r) => resolved.current_period.found
                /\ (Contains(r) /\ \A o \in Applicable(resolved.class_id) \ {r} : ~Contains(o))
                      => resolved.current_period = [found |-> TRUE, period |-> r.period]
                /\ (~Contains(r) /\ \A o \in Applicable(resolved.class_id) \ {r} : ~Contains(o))
                      => ~resolved.current_period.found

\* C9 witness: a resolution for a class at the very end of the only entry that
\* contains the time, an entry that starts earlier, found that entry's period.
C9_Witness ==
    /\ resolved # NoResolved
    /\ resolved.class_id # NULL
    /\ \E r \in Applicable(resolved.class_id) :
          /\ HasRange(r)
          /\ r.start_time.minute < r.end_time.minute
          /\ now = 2 * r.end_time.minute
          /\ \A o \in Applicable(resolved.class_id) \ {r} : ~Contains(o)
          /\ resolved.current_period = [found |-> TRUE, period |-> r.period]

\* C10 as stated, for a day whose entries all have a start and an end: when the
\* day has entries in the scope and none contains the time,
\* get_current_period_for_class returns the lowest period number of the day, and
\* it returns none only when the day has no entry.
C10_FirstPeriodFallback ==
    (/\ resolved # NoResolved
     /\ resolved.by = "get_current_period_for_class"
     /\ \A r \in Applicable(resolved.class_id) : HasRange(r)) =>
        LET entries == Applicable(resolved.class_id)
        IN /\ (entries # {} /\ \A r \in entries : ~Contains(r)) =>
                 /\ resolved.current_period.found
                 /\ \A r \in entries : resolved.current_period.period <= r.period
           /\ ~resolved.current_period.found => entries = {}

\* C10 as amended: when no entry of the day and scope contains the time,
\* get_current_period_for_class returns none, whether or not the day has
\* entries.
C10_NoneWithoutMatch ==
    (resolved # NoResolved /\ resolved.by = "get_current_period_for_class") =>
        ((\A r \in Applicable(resolved.class_id) : ~Contains(r))
            => resolved.current_period = NoPeriod)

\* C10 witness: get_current_period_for_class returned none for a class on a day
\* that has an entry with a range in its scope, the time being outside it.
C10_Witness ==
    /\ resolved # NoResolved
    /\ resolved.by = "get_current_period_for_class"
    /\ resolved.class_id # NULL
    /\ \E r \in Applicable(resolved.class_id) : HasRange(r) /\ r.class_id # NULL
    /\ \A r \in Applicable(resolved.class_id) : ~Contains(r)
    /\ resolved.current_period = NoPeriod

\* C11: a submission whose form carries no period is recorded under the period
\* the teacher page's resolution finds for the class at that moment, whenever it
\* finds one.
C11_OmittedPeriodResolved ==
    [][\A p \in SeqProcs, form \in Forms :
          teacher_dashboard_post(p, <<>>, form, TRUE) =>
              LET current_period ==
                      scan_periods_today(period_rows(schedule, weekday, class_id), now)
              IN current_period.found => loc'[p].period = current_period.period]_vars

\* C12: whatever creations and edits have run, concurrently or not, no two rows
\* of the period table have the same day, period number and class scope (a
\* class or the whole school).
C12_NoDuplicateEntry ==
    \A r1, r2 \in schedule :
        (r1.day_of_week = r2.day_of_week /\ r1.period = r2.period
            /\ r1.class_id = r2.class_id) => r1 = r2

\* the sheets of a workbook whose title row names the class
SheetsTitled(sheets, klass) ==
    {i \in DOMAIN sheets :
        /\ sheets[i].rows # <<>>
        /\ sheets[i].rows[1] = <<TitleCell(today, klass.name)>>}

\* C13: whenever a rebuild saves the workbook, the sheets the loaded workbook
\* had are kept in place under their titles, the workbook holds as many sheets as
\* there are classes, and every class has exactly one sheet whose title row names
\* it.
C13_OneSheetPerClass ==
    [][\A p \in SeqProcs :
          update_daily_excel_save(p) =>
              LET old == xlsx_load(xlsx)
                  new == xlsx'.sheets
              IN /\ Len(old) <= Len(new)
                 /\ \A i \in DOMAIN old : new[i].title = old[i].title
                 /\ Len(new) = Cardinality(school_class)
                 /\ \A k \in school_class : Cardinality(SheetsTitled(new, k)) = 1]_vars

\* the rows of the sheet a pass of the rebuild has just written for the class at
\* the head of request p's class list
WrittenRows(p) ==
    loc'[p].wb[sheet_of(loc[p].wb, Head(loc[p].classes_rows))].rows

\* the recorded periods of a class today, as the specification's Aggregator
\* defines the columns
RecordedPeriods(c) == {per \in Periods : Recorded(c, per) # {}}

\* C14: a pass of the rebuild leaves in the class's sheet, whatever it held
\* before, exactly a title row naming the date and the class, a header row with
\* a label cell and a cell per recorded period, a row per student of the class
\* in roster order, a totals row and a teacher row, in that order; and the
\* workbook a rebuild saves is the workbook a second rebuild from it saves.
C14_FullRegeneration ==
    [][\A p \in SeqProcs :
          /\ update_daily_excel_class(p) =>
                LET klass == Head(loc[p].classes_rows)
                    roster == students_rows(klass.id)
                    rows == WrittenRows(p)
                    width == 1 + Cardinality(RecordedPeriods(klass.id))
                IN /\ Len(rows) = Len(roster) + 4
                   /\ rows[1] = <<TitleCell(today, klass.name)>>
                   /\ Len(rows[2]) = width /\ rows[2][1] = TextCell("")
                   /\ \A c \in 2 .. width : rows[2][c].kind = "P{p}"
                   /\ \A j \in DOMAIN roster :
                         /\ Len(rows[2 + j]) = width
                         /\ rows[2 + j][1] = StudentCell(roster[j])
                   /\ Len(rows[Len(roster) + 3]) = width
                   /\ rows[Len(roster) + 3][1] = TextCell("")
                   /\ \A c \in 2 .. width :
                         rows[Len(roster) + 3][c].kind = "P:{present_cnt} A:{absent_cnt}"
                   /\ \E c \in DOMAIN rows[Len(roster) + 4] :
                         rows[Len(roster) + 4][c].kind = "teacher_names"
          /\ update_daily_excel_save(p) =>
                xlsx_save(render_classes(xlsx_load(xlsx'), db, today, loc[p].classes_all))
                    = xlsx']_vars

\* C14 witness: a pass of the rebuild is about to write the sheet of the
\* roster's class, which holds the rows of an earlier rebuild with fewer columns
\* than the table has recorded periods by now.
C14_Witness ==
    \E p \in SeqProcs :
        /\ pc[p] = "excel_class" /\ loc[p].classes_rows # <<>>
        /\ Head(loc[p].classes_rows).id = class_id
        /\ LET ws == find_existing_sheet(loc[p].wb, Head(loc[p].classes_rows).name)
           IN /\ ws # 0
              /\ Len(loc[p].wb[ws].rows) = Len(students) + 4
              /\ Len(loc[p].wb[ws].rows[2]) < 1 + Cardinality(RecordedPeriods(class_id))

\* C15: whenever a rebuild saves the workbook, the classes can be assigned
\* sheets of it, a different sheet to each class, such that the title row of a
\* class's sheet names the class.
C15_OwnSheetPerClass ==
    [][\A p \in SeqProcs :
          update_daily_excel_save(p) =>
              \E f \in [school_class -> DOMAIN xlsx'.sheets] :
                  /\ \A k1, k2 \in school_class : f[k1] = f[k2] => k1 = k2
                  /\ \A k \in school_class : f[k] \in SheetsTitled(xlsx'.sheets, k)]_vars

\* C16: after a pass of the rebuild, in the class's sheet the cell of every
\* student of the class under every period column is P when the student's record
\* of the class for the day and period is present, E when it is absent and
\* excused, A when it is absent with no remark or still absent, and empty when
\* there is no such record.
C16_CellSymbols ==
    [][\A p \in SeqProcs :
          update_daily_excel_class(p) =>
              LET klass == Head(loc[p].classes_rows)
                  roster == students_rows(klass.id)
                  rows == WrittenRows(p)
              IN /\ {rows[2][c].n : c \in 2 .. Len(rows[2])} = RecordedPeriods(klass.id)
                 /\ \A j \in DOMAIN roster, c \in 2 .. Len(rows[2]) :
                       LET recs == {r \in Recorded(klass.id, rows[2][c].n) :
                                       r.student_id = roster[j]}
                           cell == rows[2 + j][c]
                       IN /\ recs = {} => cell = TextCell("")
                          /\ \A r \in recs :
                                /\ r.status = "present" => cell = TextCell("P")
                                /\ (r.status = "absent" /\ r.remark = "excused")
                                      => cell = TextCell("E")
                                /\ (r.status = "absent"
                                      /\ r.remark \in {NULL, "still absent"})
                                      => cell = TextCell("A")]_vars

\* C16 witness: the sheet of the roster's class saved in the workbook shows, in
\* its student rows under two period columns, a presence, an excused absence, an
\* absence that is not excused and an empty cell.
C16_Witness ==
    /\ xlsx.exists
    /\ \E i \in DOMAIN xlsx.sheets :
          LET rows == xlsx.sheets[i].rows
          IN /\ Len(rows) = Len(students) + 4
             /\ Len(rows[2]) > 2
             /\ {rows[j][c] : j \in {3, 4}, c \in 2 .. Len(rows[2])}
                   = {TextCell("P"), TextCell("E"), TextCell("A"), BlankCell}

\* the school_class row of the roster's class
RosterClass == CHOOSE k \in school_class : k.id = class_id

\* C17: whenever a rebuild saves the workbook, for every recorded period of the
\* roster's class the workbook has a sheet whose title row names the class and
\* whose totals row shows, under the period's column, the totals the Aggregator
\* defines for the class and period.
C17_TotalsInArtifact ==
    [][\A p \in SeqProcs :
          update_daily_excel_save(p) =>
              \A per \in RecordedPeriods(class_id) :
                  \E i \in SheetsTitled(xlsx'.sheets, RosterClass) :
                      LET rows == xlsx'.sheets[i].rows
                      IN \E c \in 2 .. Len(rows[2]) :
                            /\ rows[2][c] = PeriodCell(per)
                            /\ rows[Len(students) + 3][c]
                                  = TotalsCell(ClaimedTotals(class_id, per))]_vars

\* C18: whenever no request is in progress and the day's workbook exists, the
\* workbook is the one a rebuild from an empty workbook writes for the records
\* the table holds.
C18_ArtifactIsCleanRender ==
    ((\A p \in Procs : pc[p] = "idle") /\ xlsx.exists) =>
        \E classes_rows \in Orderings(school_class) :
            xlsx = xlsx_save(render_classes(<<>>, db, today, classes_rows))


\* C19: when a submission that read no record for a student and period comes to
\* its insert after another submission's record for them was committed, the
\* write leaves exactly one record for the student, day and period, that record
\* carries the status of this later write, and the request goes on to its next
\* step; no request ever ends with a uniqueness error.
C19_InsertRaceResolved ==
    [][\A p \in Procs :
          (/\ teacher_dashboard_write(p)
           /\ ~loc[p].existing.found
           /\ Lookup(View(p), students[loc[p].i], today, loc[p].period) # {}) =>
              LET sid == students[loc[p].i]
                  recs == Lookup(wdb', sid, today, loc[p].period)
              IN /\ Cardinality(recs) = 1
                 /\ \A r \in recs : r.status = FormGet(loc[p].form, sid)
                 /\ pc'[p] \in {"select", "commit"}
                 /\ \A q \in Procs : result'[q] # "IntegrityError"]_vars

\* C19 witness: a submission that read no record for its student is about to
\* insert while the table holds the record another submission committed in the
\* meantime, with the other status.
C19_Witness ==
    \E p \in Procs :
        /\ pc[p] = "write" /\ lock = {}
        /\ ~loc[p].existing.found
        /\ \E r \in Lookup(db, students[loc[p].i], today, loc[p].period) :
              /\ r.status # FormGet(loc[p].form, students[loc[p].i])
              /\ r.teacher_id # p

\* C20: a submission that fails after some of its per-student writes leaves the
\* committed table as it was before the submission's first write, shows no other
\* request any of those writes, and is not reported as saved; the committed
\* table changes only when a request commits, and no request reads another
\* request's uncommitted writes.
C20_NoPartialEffect ==
    [][/\ \A p \in Procs :
             storage_failure(p) =>
                 /\ db' = db
                 /\ \A q \in Procs : View(q)' = db
                 /\ result'[p] # "saved"
                 /\ lastDone' = lastDone
       /\ db' # db => \E p \in Procs : \/ teacher_dashboard_commit(p, FALSE)
                                        \/ staff_update_remark_commit(p, FALSE)
       /\ \A p \in Procs : lock # {p} => View(p) = db]_vars

\* C20 witness: a submission has failed after writing for a student into an
\* empty table, and the table is still empty.
C20_Witness ==
    \E p \in Procs :
        /\ result[p] = "sqlite3.Error" /\ pc[p] = "idle"
        /\ db = {} /\ clock > 0
        /\ \A q \in Procs : pc[q] = "idle"

\* C21: every committed record's status is present or absent.
C21_StatusEnumerated ==
    \A r \in db : r.status \in {"present", "absent"}

\* C22: a remark request whose value is outside the enumeration ends with the
\* invalid-value message and writes nothing; one whose value is empty or is not
\* sent at all, for a record that is absent, goes on to store no remark; and
\* every committed remark is none, excused or still absent.
C22_RemarkNormalised ==
    [][/\ \A p \in Procs, sid \in RosterSet, per \in Periods :
             /\ staff_update_remark_check(p, sid, per, "bogus", FALSE) =>
                   /\ result'[p] = "Invalid remark value"
                   /\ pc'[p] = "idle" /\ db' = db /\ wdb' = wdb
             /\ \A remark \in {"", "MISSING"} :
                   (/\ staff_update_remark_check(p, sid, per, remark, FALSE)
                    /\ \E r \in Lookup(View(p), sid, today, per) : r.status = "absent") =>
                       /\ pc'[p] = "remark_update"
                       /\ loc'[p].remark \in {"", "MISSING"}
       /\ \A p \in Procs :
             (staff_update_remark_update(p) /\ loc[p].remark \in {"", "MISSING"}) =>
                 \A r \in wdb' : r.id = loc[p].existing.id => r.remark = NULL
       /\ \A r \in db' : r.remark \in {NULL, "excused", "still absent"}]_vars


\* the entries of the day and scope of the last resolution whose range contains
\* the time
Matching == {r \in Applicable(resolved.class_id) : Contains(r)}

\* C23: after either resolution, when entries of the day and scope contain the
\* time, several of them with overlapping ranges included, the period found is
\* the smallest period number among them.
C23_LowestMatchingPeriod ==
    (resolved # NoResolved /\ Matching # {}) =>
        /\ resolved.current_period.found
        /\ \E r \in Matching : resolved.current_period.period = r.period
        /\ \A r \in Matching : resolved.current_period.period <= r.period

\* C23 witness: get_current_period_for_class found the lower period of two
\* entries that both contain the time, the other one starting later and being
\* the tighter range.
C23_Witness ==
    /\ resolved # NoResolved
    /\ resolved.by = "get_current_period_for_class"
    /\ \E r1, r2 \in Matching :
          /\ r1.period < r2.period
          /\ r1.start_time.minute < r2.start_time.minute
          /\ r1.end_time.minute >= r2.end_time.minute
          /\ resolved.current_period = [found |-> TRUE, period |-> r1.period]

\* C24: after either resolution, a period is found exactly when an entry of the
\* current day that is of the whole school, or of the class the resolution is
\* for, contains the time, and the period found is the period of such an entry;
\* entries of another class, of another day, and, for the whole school, entries
\* of any class count for nothing.
C24_ResolverScope ==
    resolved # NoResolved =>
        /\ resolved.current_period.found <=> Matching # {}
        /\ resolved.current_period.found =>
              \E r \in schedule :
                  /\ r.day_of_week = weekday
                  /\ r.class_id \in {NULL, resolved.class_id}
                  /\ Contains(r)
                  /\ r.period = resolved.current_period.period

\* C24 witness: a resolution found the period of a school-wide entry while an
\* entry of another class, with another period number, contains the time too.
C24_Witness ==
    /\ resolved # NoResolved
    /\ resolved.current_period.found
    /\ \E r \in Matching, o \in schedule :
          /\ r.class_id = NULL
          /\ o.day_of_week = weekday /\ Contains(o)
          /\ o.class_id \notin {NULL, resolved.class_id}
          /\ o.period < r.period
          /\ resolved.current_period.period = r.period

\* C30: after either resolution, an entry of the day and scope that lacks a
\* start or an end time, or has one that does not parse, does not make the
\* resolution find a period when no other entry contains the time, and does not
\* keep an entry with a higher period number that contains the time from being
\* found.
C30_IncompleteEntryIgnored ==
    resolved # NoResolved =>
        \A r \in Applicable(resolved.class_id) :
            ~HasRange(r) =>
                /\ (\A o \in Applicable(resolved.class_id) \ {r} : ~Contains(o))
                      => ~resolved.current_period.found
                /\ \A o \in Applicable(resolved.class_id) :
                      (o.period > r.period /\ Contains(o)) =>
                          /\ resolved.current_period.found
                          /\ \E m \in Matching : resolved.current_period.period = m.period

\* C30 witness: get_current_period_for_class found the second period while the
\* first period's entry has a start time that has passed and no end time.
C30_Witness ==
    /\ resolved # NoResolved
    /\ resolved.by = "get_current_period_for_class"
    /\ \E r, o \in Applicable(resolved.class_id) :
          /\ r.start_time.kind = "HH:MM" /\ 2 * r.start_time.minute <= now
          /\ r.end_time = TimeNull
          /\ r.period < o.period /\ Contains(o)
          /\ resolved.current_period = [found |-> TRUE, period |-> o.period]

\* C25: a write that found the student's record, whatever its status, and carries
\* the new status absent leaves that record absent with the remark it had just
\* before the write.
C25_AbsenceKeepsRemark ==
    [][\A p \in Procs :
          (/\ teacher_dashboard_write(p)
           /\ loc[p].existing.found
           /\ FormGet(loc[p].form, students[loc[p].i]) = "absent") =>
              \A r \in View(p) :
                  r.id = loc[p].existing.id =>
                      \E w \in wdb' : /\ w.id = r.id
                                       /\ w.status = "absent"
                                       /\ w.remark = r.remark
                                       /\ w.updated_at = loc[p].current_time]_vars

\* C25 witness: inside a submission's transaction a record committed as an
\* excused absence has been written again as absent and still reads excused.
C25_Witness ==
    \E p \in Procs :
        /\ lock = {p} /\ loc[p].kind = "submit"
        /\ \E r \in db, w \in wdb :
              /\ r.id = w.id
              /\ r.status = "absent" /\ r.remark = "excused"
              /\ w.status = "absent" /\ w.remark = "excused"
              /\ w.updated_at = loc[p].current_time /\ w.updated_at # r.updated_at

\* C26: for the class of a computed summary, the periods the summary counts are
\* exactly the periods with at least one record of the class today, and the
\* header row of the class's sheet has, after its label cell, one column for
\* each of these periods and no other, in ascending order.
C26_ColumnsAreRecordedPeriods ==
    summary # NoSummary =>
        \A k \in school_class :
            k.id = summary.class_id =>
                LET header == class_rows(db, today, k)[2]
                IN /\ DOMAIN summary.period_counts = RecordedPeriods(k.id)
                   /\ Len(header) = 1 + Cardinality(RecordedPeriods(k.id))
                   /\ header[1] = TextCell("")
                   /\ \A i \in 2 .. Len(header) :
                         /\ header[i].kind = "P{p}"
                         /\ header[i].n \in RecordedPeriods(k.id)
                         /\ \A j \in 2 .. Len(header) : i < j => header[i].n < header[j].n

\* C26 witness: a summary was computed for a class whose only records today are
\* of the second period, while the other class has records of the first.
C26_Witness ==
    /\ summary # NoSummary
    /\ DOMAIN summary.period_counts = {2}
    /\ \E r \in db : r.class_id # summary.class_id /\ r.period = 1
    /\ \E k \in school_class :
          k.id = summary.class_id /\ class_rows(db, today, k)[2] = <<TextCell(""), PeriodCell(2)>>

\* C28: for the class of a computed summary, when every record of the class
\* today is present or absent, the present and absent counts of every recorded
\* period add up to the number of records of the class for that period, in the
\* summary and in the totals of the daily sheet alike.
C28_CountsPartitionRecords ==
    (/\ summary # NoSummary
     /\ \A r \in db : (r.class_id = summary.class_id /\ r.date = today)
                          => r.status \in {"present", "absent"}) =>
        \A per \in RecordedPeriods(summary.class_id) :
            /\ per \in DOMAIN summary.period_counts
            /\ summary.period_counts[per].present + summary.period_counts[per].absent
                  = Cardinality(Recorded(summary.class_id, per))
            /\ excel_totals(db, today, summary.class_id, per).present
                  + excel_totals(db, today, summary.class_id, per).absent
                  = Cardinality(Recorded(summary.class_id, per))

\* C28 witness: a summary counts one present and one absent for a period whose
\* two records are an excused absence and an absence marked still absent.
C28_Witness ==
    /\ summary # NoSummary
    /\ \E per \in DOMAIN summary.period_counts :
          /\ summary.period_counts[per] = [present |-> 1, absent |-> 1]
          /\ \E r1, r2 \in Recorded(summary.class_id, per) :
                /\ r1.status = "absent" /\ r1.remark = "excused"
                /\ r2.status = "absent" /\ r2.remark = "still absent"

\* C27: whenever a rebuild saves the workbook, the title row of every sheet of
\* the workbook names a class the school_class table holds.
C27_NoStaleSheet ==
    [][\A p \in SeqProcs :
          update_daily_excel_save(p) =>
              \A i \in DOMAIN xlsx'.sheets :
                  \E k \in school_class : i \in SheetsTitled(xlsx'.sheets, k)]_vars


\* C29: the commit of a submission leaves, for every student of the roster, a
\* record for today and the submission's period that carries the session's
\* class, the submitting teacher and the status the form gives for the student,
\* present when the form gives none.
C29_WholeRosterRecorded ==
    [][\A p \in Procs :
          teacher_dashboard_commit(p, FALSE) =>
              \A i \in DOMAIN students :
                  \E r \in db' :
                      /\ r.student_id = students[i] /\ r.date = today
                      /\ r.period = loc[p].period
                      /\ r.class_id = class_id
                      /\ r.teacher_id = loc[p].teacher_id
                      /\ r.status = (IF students[i] \in DOMAIN loc[p].form
                                       THEN loc[p].form[students[i]] ELSE "present")]_vars

\* C29 witness: a submission whose form had no status for the last student has
\* committed, and that student's record is present, written by the submitting
\* teacher over the record another teacher had committed.
C29_Witness ==
    \E p \in Procs :
        /\ pc[p] = "saved"
        /\ students[Len(students)] \notin DOMAIN loc[p].form
        /\ \E r \in db :
              /\ r.student_id = students[Len(students)]
              /\ r.period = loc[p].period
              /\ r.status = "present"
              /\ r.teacher_id = loc[p].teacher_id
              /\ r.updated_at = loc[p].current_time
              /\ r.created_at # r.updated_at
====
